---- MODULE Spec2Model ----
(***************************************************************************)
(* A model of the trie of src/main.rs: TrieNode, Trie::insert,             *)
(* Trie::contains, Trie::words and Trie::collect_words.                    *)
(*                                                                         *)
(* A char is its Unicode scalar value, a string the sequence of its chars. *)
(* The boxed nodes live in a heap: heap[i] is the i-th node allocated,     *)
(* heap[1] is Trie::root, and a child slot holds the index of the boxed    *)
(* node or None.                                                           *)
(***************************************************************************)
EXTENDS Naturals, Sequences, FiniteSets

\* ---------------------------------------------------------------- bounds
\* Longest string passed to an operation.
MaxLen == 2
\* Number of distinct keys inserted in one run.
MaxKeys == 2

\* ------------------------------------------------------------- constants
\* children: [Option<Box<TrieNode>>; 26]
NumLetters == 26
\* 'a' as usize, b'a'
LowerA == 97

\* The chars the strings are drawn from: 'a', 'A', the apostrophe, and
\* U+212A KELVIN SIGN, whose lowercase mapping is the ASCII letter 'k'.
Chars == {97, 65, 39, 8490}

RECURSIVE StringsOfLen(_)
StringsOfLen(n) ==
    IF n = 0 THEN {<<>>}
    ELSE {Append(s, c) : s \in StringsOfLen(n - 1), c \in Chars}

Strings == UNION {StringsOfLen(n) : n \in 0..MaxLen}

\* ------------------------------------------------------ library functions
\* char::to_lowercase, as str::to_lowercase applies it to each char: the
\* ASCII capitals, and the two chars outside ASCII whose lowercase mapping
\* holds an ASCII letter (U+212A -> 'k', U+0130 -> 'i' U+0307). The mapping
\* of any other char holds no ASCII letter, and the trie only tests it with
\* is_ascii_alphabetic, so it stands for itself here.
LowerChar(c) ==
    IF c \in 65..90 THEN <<c + 32>>
    ELSE IF c = 8490 THEN <<107>>
    ELSE IF c = 304 THEN <<105, 775>>
    ELSE <<c>>

RECURSIVE ToLowercase(_)
ToLowercase(s) ==
    IF s = <<>> THEN <<>>
    ELSE LowerChar(Head(s)) \o ToLowercase(Tail(s))

\* char::is_ascii_alphabetic
IsAsciiAlphabetic(c) == c \in 65..90 \/ c \in 97..122

\* ------------------------------------------------------------------ nodes
None == 0

\* TrieNode::new()
NewNode ==
    [children |-> [i \in 0..(NumLetters - 1) |-> None], is_end_of_word |-> FALSE]

\* (char_code as usize) - ('a' as usize)
LetterIndex(c) == c - LowerA

\* ----------------------------------------------------------------- insert
\* Mutant: the slot is filled with a fresh node whether it is empty or not.
NeedsAllocAlways(h, cur, index) == TRUE

\* The is_none() test of insert: the slot is filled when it is empty.
NeedsAlloc(h, cur, index) == h[cur].children[index] = None

\* One pass of the loop body of insert for a letter: the heap after the
\* slot has been filled if it was empty.
Descend(h, cur, index) ==
    IF NeedsAlloc(h, cur, index)
    THEN Append([h EXCEPT ![cur].children[index] = Len(h) + 1], NewNode)
    ELSE h

\* Mutant: insert does not set is_end_of_word.
MarkEndNot(h, cur) == h

\* Mutant: insert flips is_end_of_word.
MarkEndToggle(h, cur) ==
    [h EXCEPT ![cur].is_end_of_word = ~h[cur].is_end_of_word]

\* current_node.is_end_of_word = true
MarkEnd(h, cur) == [h EXCEPT ![cur].is_end_of_word = TRUE]

RECURSIVE InsertLoop(_, _, _)
InsertLoop(h, cur, chars) ==
    IF chars = <<>> THEN MarkEnd(h, cur)
    ELSE IF ~IsAsciiAlphabetic(Head(chars)) THEN InsertLoop(h, cur, Tail(chars))
    ELSE LET index == LetterIndex(Head(chars))
             h2 == Descend(h, cur, index)
         IN  InsertLoop(h2, h2[cur].children[index], Tail(chars))

\* Trie::insert: the heap after insert(word)
InsertWord(h, word) == InsertLoop(h, 1, ToLowercase(word))

\* --------------------------------------------------------------- contains
\* Mutant: contains answers true for every path that exists.
AtEndAlways(h, cur) == TRUE

\* current_node.is_end_of_word, the value contains returns after the loop
AtEnd(h, cur) == h[cur].is_end_of_word

RECURSIVE ContainsLoop(_, _, _)
ContainsLoop(h, cur, chars) ==
    IF chars = <<>> THEN AtEnd(h, cur)
    ELSE IF ~IsAsciiAlphabetic(Head(chars)) THEN FALSE
    ELSE LET index == LetterIndex(Head(chars))
         IN  IF h[cur].children[index] = None THEN FALSE
             ELSE ContainsLoop(h, h[cur].children[index], Tail(chars))

\* Mutant: contains does not lowercase, and takes a capital for a char that
\* is no letter.
ContainsWordCaseSensitive(h, word) ==
    IF \E i \in 1..Len(word) : word[i] \in 65..90 THEN FALSE
    ELSE ContainsLoop(h, 1, word)

\* Trie::contains
ContainsWord(h, word) == ContainsLoop(h, 1, ToLowercase(word))

\* ------------------------------------------------------------------ words
\* The loop of words: the node the prefix leads to, None when a slot on the
\* way is empty.
RECURSIVE WalkPrefix(_, _, _)

\* Mutant: words gives up at a char that is no letter, as contains does.
WalkPrefixStrict(h, cur, chars) ==
    IF chars = <<>> THEN cur
    ELSE IF ~IsAsciiAlphabetic(Head(chars)) THEN None
    ELSE LET index == LetterIndex(Head(chars))
         IN  IF h[cur].children[index] = None THEN None
             ELSE WalkPrefix(h, h[cur].children[index], Tail(chars))

WalkPrefix(h, cur, chars) ==
    IF chars = <<>> THEN cur
    ELSE IF ~IsAsciiAlphabetic(Head(chars)) THEN WalkPrefix(h, cur, Tail(chars))
    ELSE LET index == LetterIndex(Head(chars))
         IN  IF h[cur].children[index] = None THEN None
             ELSE WalkPrefix(h, h[cur].children[index], Tail(chars))

\* if node.is_end_of_word { words.push(prefix.to_string()) }
PushIfEnd(h, node, prefix) ==
    IF h[node].is_end_of_word THEN <<prefix>> ELSE <<>>

\* node.children.iter().enumerate(): the slots in the order of the loop
Slots == [i \in 1..NumLetters |-> i - 1]

\* The slots of the node the loop of collect_words finds filled, in order.
FilledSlots(h, node) ==
    LET Filled(i) == h[node].children[i] # None
    IN  SelectSeq(Slots, Filled)

\* Trie::collect_words: CollectWords is the call, CollectFrom the passes of
\* its loop for the filled slots that are left.
RECURSIVE CollectWords(_, _, _)
RECURSIVE CollectFrom(_, _, _, _)
CollectFrom(h, node, prefix, slots) ==
    IF slots = <<>> THEN <<>>
    ELSE CollectWords(h, h[node].children[Head(slots)],
                      Append(prefix, LowerA + Head(slots)))
         \o CollectFrom(h, node, prefix, Tail(slots))

\* Mutant: the node's own word is pushed after the words of its children.
CollectWordsPostOrder(h, node, prefix) ==
    CollectFrom(h, node, prefix, FilledSlots(h, node)) \o PushIfEnd(h, node, prefix)

CollectWords(h, node, prefix) ==
    PushIfEnd(h, node, prefix) \o CollectFrom(h, node, prefix, FilledSlots(h, node))

\* Mutant: the words are built on the key of the prefix, not on the prefix.
WordsOfKey(h, prefix) ==
    LET node == WalkPrefix(h, 1, ToLowercase(prefix))
    IN  IF node = None THEN <<>>
        ELSE CollectWords(h, node, SelectSeq(ToLowercase(prefix), IsAsciiAlphabetic))

\* Trie::words
WordsOf(h, prefix) ==
    LET node == WalkPrefix(h, 1, ToLowercase(prefix))
    IN  IF node = None THEN <<>> ELSE CollectWords(h, node, prefix)

\* ------------------------------------------------------------------ state
\* The key insert stores for a string: its lowercase form without the chars
\* that are not ASCII letters.
Norm(s) == SelectSeq(ToLowercase(s), IsAsciiAlphabetic)

VARIABLES
    heap,   \* the nodes of the trie, heap[1] the root
    keys,   \* history: the keys of the strings passed to insert so far
    last    \* the call that has just returned, with its argument and result

vars == <<heap, keys, last>>

\* known: the key of the argument had been inserted before the call
NoCall ==
    [op |-> "none", arg |-> <<>>, found |-> FALSE, list |-> <<>>, known |-> FALSE]

Call(op, arg, found, list) ==
    [op |-> op, arg |-> arg, found |-> found, list |-> list,
     known |-> Norm(arg) \in keys]

\* Trie::new()
Init ==
    /\ heap = <<NewNode>>
    /\ keys = {}
    /\ last = NoCall

\* trie.insert(word)
Insert(word) ==
    /\ last = NoCall
    /\ Cardinality(keys \cup {Norm(word)}) <= MaxKeys
    /\ heap' = InsertWord(heap, word)
    /\ keys' = keys \cup {Norm(word)}
    /\ last' = Call("insert", word, FALSE, <<>>)

\* trie.contains(word)
Contains(word) ==
    /\ last = NoCall
    /\ last' = Call("contains", word, ContainsWord(heap, word), <<>>)
    /\ UNCHANGED <<heap, keys>>

\* trie.words(prefix)
Words(prefix) ==
    /\ last = NoCall
    /\ last' = Call("words", prefix, FALSE, WordsOf(heap, prefix))
    /\ UNCHANGED <<heap, keys>>

\* The caller is done with the result of its call (main prints it) and goes
\* on to its next call.
Consume ==
    /\ last # NoCall
    /\ last' = NoCall
    /\ UNCHANGED <<heap, keys>>

Next ==
    \/ \E word \in Strings : Insert(word)
    \/ \E word \in Strings : Contains(word)
    \/ \E prefix \in Strings : Words(prefix)
    \/ Consume

Spec == Init /\ [][Next]_vars

\* ------------------------------------------------- vocabulary of the claims
AllAsciiLetters(s) == \A i \in 1..Len(s) : IsAsciiAlphabetic(s[i])

Range(seq) == {seq[i] : i \in 1..Len(seq)}

IsPrefix(p, s) == Len(p) <= Len(s) /\ SubSeq(s, 1, Len(p)) = p

\* s comes strictly before t in lexicographic order
LexLess(s, t) ==
    \/ Len(s) < Len(t) /\ IsPrefix(s, t)
    \/ \E i \in 1..Len(s) :
          /\ i <= Len(t)
          /\ SubSeq(s, 1, i - 1) = SubSeq(t, 1, i - 1)
          /\ s[i] < t[i]

\* char::to_uppercase and str::to_uppercase: the ASCII small letters, and
\* U+00DF, whose uppercase mapping is "SS"; U+212A is its own uppercase.
UpperChar(c) ==
    IF c \in 97..122 THEN <<c - 32>>
    ELSE IF c = 223 THEN <<83, 83>>
    ELSE <<c>>

RECURSIVE ToUppercase(_)
ToUppercase(s) ==
    IF s = <<>> THEN <<>>
    ELSE UpperChar(Head(s)) \o ToUppercase(Tail(s))

\* the chars of s that are ASCII letters, in order
LetterOnly(s) == SelectSeq(s, IsAsciiAlphabetic)

\* the node the letters of path lead to from node, None if there is none
RECURSIVE Follow(_, _, _)
Follow(h, node, path) ==
    IF node = None \/ path = <<>> THEN node
    ELSE Follow(h, h[node].children[Head(path) - LowerA], Tail(path))

HasChild(h, n) == \E i \in 0..(NumLetters - 1) : h[n].children[i] # None

\* ------------------------------------------------------------------ claims

\* C1: for a query q of ASCII letters only (the empty string included),
\* contains(q) returns true if and only if the lowercase q is the key of a
\* string passed to insert before; so it is false on a fresh trie and false
\* for a proper prefix of a key that was not inserted itself.
C1_ContainsIffInserted ==
    (last.op = "contains" /\ AllAsciiLetters(last.arg))
        => (last.found <=> ToLowercase(last.arg) \in keys)

\* contains has answered false for a proper prefix of an inserted key
C1_Witness ==
    /\ last.op = "contains"
    /\ AllAsciiLetters(last.arg)
    /\ ~last.found
    /\ \E k \in keys : IsPrefix(ToLowercase(last.arg), k)

\* C2: words(p) returns the inserted keys, each in its normalized form, that
\* start with the normalized form of p, and nothing else.
C2_WordsAreKeys ==
    last.op = "words"
        => Range(last.list) = {k \in keys : IsPrefix(Norm(last.arg), k)}

\* C3: the sequence words(p) returns is in strictly ascending lexicographic
\* order, and words("") lists every inserted key.
C3_WordsAscending ==
    last.op = "words"
        => /\ \A i \in 1..Len(last.list) :
                 i < Len(last.list) => LexLess(last.list[i], last.list[i + 1])
           /\ last.arg = <<>> => Range(last.list) = keys

\* words has returned a key before a longer key it is a prefix of, or before
\* a key that differs from it in a letter
C3_Witness ==
    /\ last.op = "words"
    /\ Len(last.list) >= 2
    /\ Len(last.list[2]) > Len(last.arg)

\* C4 as stated: for all strings w, after insert(w), contains(w.to_lowercase())
\* is true, and contains(w.to_uppercase()) is true when the uppercase form
\* is all letters.
C4_CaseInvariance_AllStrings ==
    last.op = "insert"
        => /\ ContainsWord(heap, ToLowercase(last.arg))
           /\ AllAsciiLetters(ToUppercase(last.arg))
                 => ContainsWord(heap, ToUppercase(last.arg))

\* C4 amended: for all strings w of ASCII letters only, after insert(w) both
\* contains(w.to_lowercase()) and contains(w.to_uppercase()) are true.
C4_CaseInvariance ==
    (last.op = "insert" /\ AllAsciiLetters(last.arg))
        => /\ ContainsWord(heap, ToLowercase(last.arg))
           /\ ContainsWord(heap, ToUppercase(last.arg))

\* a word of both cases has been inserted
C4_Witness ==
    /\ last.op = "insert"
    /\ AllAsciiLetters(last.arg)
    /\ ToLowercase(last.arg) # last.arg
    /\ ToUppercase(last.arg) # last.arg

\* C5: for a string w with a char that is not an ASCII letter, after
\* insert(w), contains(letter-only projection of w) is true and contains(w)
\* is false; contains is false for every query with such a char.
C5_ElisionVsRejection ==
    /\ (last.op = "insert" /\ ~AllAsciiLetters(last.arg))
          => /\ ContainsWord(heap, LetterOnly(last.arg))
             /\ ~ContainsWord(heap, last.arg)
    /\ (last.op = "contains" /\ ~AllAsciiLetters(last.arg)) => ~last.found

\* C6: inserting a string whose key was inserted before leaves the whole
\* trie as it was, with the same number of nodes; contains and words read
\* nothing but the trie, so their results are the same as before.
C6_InsertIdempotent ==
    [][(last'.op = "insert" /\ last'.known)
          => /\ heap' = heap
             /\ Len(heap') = Len(heap)]_vars

\* a key of at least one letter has been inserted a second time
C6_Witness ==
    /\ last.op = "insert"
    /\ last.known
    /\ Norm(last.arg) # <<>>

\* C7: if prefix was passed to insert before, words(prefix) is not empty and
\* its first element is prefix. Stated for every prefix whose key has been
\* inserted, which covers the strings that were passed to insert.
C7_PrefixIsWordFirst ==
    (last.op = "words" /\ last.known)
        => /\ last.list # <<>>
           /\ last.list[1] = last.arg

\* words was called with an inserted key of which another key is an extension
C7_Witness ==
    /\ last.op = "words"
    /\ last.known
    /\ last.arg # <<>>
    /\ Len(last.list) >= 2

\* C8: every node other than the root has is_end_of_word set or has a child,
\* and the root has neither only when nothing has been inserted.
C8_NoDeadEnd ==
    /\ \A n \in 1..Len(heap) :
          n > 1 => (heap[n].is_end_of_word \/ HasChild(heap, n))
    /\ (~heap[1].is_end_of_word /\ ~HasChild(heap, 1)) => keys = {}

\* a node on the way to a key that is not a key itself
C8_Witness ==
    \E n \in 1..Len(heap) :
        n > 1 /\ ~heap[n].is_end_of_word /\ HasChild(heap, n)

\* C9: no step removes a node, empties a slot or resets is_end_of_word, so a
\* query contains answers true stays true, and words(p) loses no element.
C9_AppendOnly ==
    [][\/ heap' = heap
       \/ /\ Len(heap') >= Len(heap)
          /\ \A n \in 1..Len(heap) :
                /\ heap[n].is_end_of_word => heap'[n].is_end_of_word
                /\ \A i \in 0..(NumLetters - 1) :
                      heap[n].children[i] # None
                          => heap'[n].children[i] = heap[n].children[i]
          /\ \A q \in Strings : ContainsWord(heap, q) => ContainsWord(heap', q)
          /\ \A p \in Strings :
                Range(WordsOf(heap, p)) \subseteq Range(WordsOf(heap', p))]_vars

\* a key was inserted into a trie that held another key
C9_Witness ==
    /\ last.op = "insert"
    /\ ~last.known
    /\ Cardinality(keys) >= 2

\* C10: each string words(p) returns is p as it was passed, followed by the
\* small letters of a path from the node of the prefix to a node with
\* is_end_of_word set.
C10_WordsKeepRawPrefix ==
    last.op = "words"
        => \A i \in 1..Len(last.list) :
              LET w == last.list[i]
                  path == SubSeq(w, Len(last.arg) + 1, Len(w))
                  from == WalkPrefix(heap, 1, ToLowercase(last.arg))
                  to == Follow(heap, from, path)
              IN  /\ IsPrefix(last.arg, w)
                  /\ \A j \in 1..Len(path) : path[j] \in 97..122
                  /\ to # None
                  /\ heap[to].is_end_of_word

\* words has returned a longer string for a prefix that is not its own key
C10_Witness ==
    /\ last.op = "words"
    /\ Norm(last.arg) # last.arg
    /\ \E i \in 1..Len(last.list) : Len(last.list[i]) > Len(last.arg)

====
